---- MODULE Spec2Model ----
(***************************************************************************)
(* WavAudioPlayer (src/src/main.cpp): command-line dispatch, session       *)
(* start-up, the supervising poll loop and shutdown.                       *)
(*                                                                         *)
(* C strings are tuples of one-character strings, so that strcmp is tuple  *)
(* equality and std::stoi is a scan over the characters.  A pointer that   *)
(* may be null and a std::optional are tuples of length 0 (nullptr,        *)
(* std::nullopt) or 1 (the value).                                         *)
(***************************************************************************)
EXTENDS Integers, Sequences, FiniteSets, TLC

\* Longest argument list explored, argv[0] excluded.
MaxArgs == 4

----------------------------------------------------------------------------
\* The strings of the option table and of the explored command lines.

S_help == <<"-", "-", "h", "e", "l", "p">>
S_h == <<"-", "h">>
S_version == <<"-", "-", "v", "e", "r", "s", "i", "o", "n">>
S_v == <<"-", "v">>
S_input_file == <<"-", "-", "i", "n", "p", "u", "t", "-", "f", "i", "l", "e">>
S_i == <<"-", "i">>
S_list_audio_devices == <<"-", "-", "l", "i", "s", "t", "-", "a", "u", "d", "i", "o", "-", "d", "e", "v", "i", "c", "e", "s">>
S_ld == <<"-", "l", "d">>
S_set_audio_output == <<"-", "-", "s", "e", "t", "-", "a", "u", "d", "i", "o", "-", "o", "u", "t", "p", "u", "t">>
S_o == <<"-", "o">>

S_prog == <<"p", "r", "o", "g">>
S_a_wav == <<"a", ".", "w", "a", "v">>
S_b_txt == <<"b", ".", "t", "x", "t">>
S_1 == <<"1">>
S_99 == <<"9", "9">>

\* Tokens a command line is drawn from: both forms of the configuring
\* options, terminal options, file names and device ids.
Tokens ==
  { S_h, S_version, S_i, S_input_file, S_ld, S_o, S_set_audio_output,
    S_a_wav, S_b_txt, S_1, S_99 }

\* Files for which FileManager::is_wav_file answers true.
WavFiles == { S_a_wav }

\* An unsigned int holding the int v: the 32 bits of v, as two 16-bit
\* halves (TLC's integers are 32 bits wide and signed).
ToUnsigned(v) == [hi |-> (v \div 65536) % 65536, lo |-> v % 65536]

\* Ids the device registry knows when the process starts.
AudioDevices == { ToUnsigned(1) }

\* The id carried by the record get_audio_device returns for an id it does
\* not know: it differs from every unsigned id that can be requested.
NoDeviceId == [hi |-> -1, lo |-> -1]

nullptr == <<>>
nullopt == <<>>

----------------------------------------------------------------------------
\* The option table.

commands ==
  << [argument |-> S_help, argument_short |-> S_h, action |-> "help"],
     [argument |-> S_version, argument_short |-> S_v, action |-> "version"],
     [argument |-> S_input_file, argument_short |-> S_i, action |-> "input_file"],
     [argument |-> S_list_audio_devices, argument_short |-> S_ld, action |-> "list_audio_devices"],
     [argument |-> S_set_audio_output, argument_short |-> S_o, action |-> "set_audio_output"] >>

\* strcmp(a, b) == 0
strcmp0(a, b) == a = b

\* Index of the first table entry whose long or short form equals arg, 0
\* when there is none (the inner for loop with its break).
MatchCommand(arg) ==
  LET hits == { k \in 1..Len(commands) :
                  \/ strcmp0(arg, commands[k].argument)
                  \/ strcmp0(arg, commands[k].argument_short) }
  IN IF hits = {} THEN 0 ELSE CHOOSE k \in hits : \A j \in hits : k <= j

\* The pointer handed to the action of the option at index i (0-based, as
\* in the source) of an argument vector of argc entries.
ActionArg(av, idx) ==
  IF (idx + 1) < Len(av) THEN << av[idx + 2] >> ELSE nullptr

----------------------------------------------------------------------------
\* std::stoi

IsSpace(c) == c \in { " ", "\t", "\n" }
IsDigit(c) == c \in { "0", "1", "2", "3", "4", "5", "6", "7", "8", "9" }

DigitVal(c) ==
  CASE c = "0" -> 0 [] c = "1" -> 1 [] c = "2" -> 2 [] c = "3" -> 3
    [] c = "4" -> 4 [] c = "5" -> 5 [] c = "6" -> 6 [] c = "7" -> 7
    [] c = "8" -> 8 [] c = "9" -> 9

INT_MAX == 2147483647

RECURSIVE SkipSpace(_, _)
SkipSpace(s, p) ==
  IF p <= Len(s) /\ IsSpace(s[p]) THEN SkipSpace(s, p + 1) ELSE p

\* Number of digits of s from position p on.
RECURSIVE DigitRun(_, _)
DigitRun(s, p) ==
  IF p <= Len(s) /\ IsDigit(s[p]) THEN 1 + DigitRun(s, p + 1) ELSE 0

\* The int the n digits from position p on denote, with the sign sgn (1 or
\* -1) applied digit by digit so that INT_MIN is reached without overflow;
\* <<>> when the value leaves [INT_MIN, INT_MAX].
RECURSIVE DigitsValue(_, _, _, _, _)
DigitsValue(s, p, n, sgn, acc) ==
  IF n = 0 THEN << acc >>
  ELSE LET d == DigitVal(s[p])
           fits == IF sgn = 1
                   THEN acc <= (INT_MAX - d) \div 10
                   ELSE 0 - acc <= (INT_MAX + 1 - d) \div 10
       IN IF fits THEN DigitsValue(s, p + 1, n - 1, sgn, acc * 10 + sgn * d)
          ELSE <<>>

\* std::stoi(s): leading white space, an optional sign, then decimal digits;
\* what follows the digits is ignored.  No digit: std::invalid_argument;
\* a value outside int: std::out_of_range.
stoi(s) ==
  LET p0 == SkipSpace(s, 1)
      neg == p0 <= Len(s) /\ s[p0] = "-"
      p1 == IF p0 <= Len(s) /\ s[p0] \in { "-", "+" } THEN p0 + 1 ELSE p0
      n == DigitRun(s, p1)
      v == DigitsValue(s, p1, n, IF neg THEN -1 ELSE 1, 0)
  IN IF n = 0 THEN [ok |-> FALSE, what |-> "invalid_argument"]
     ELSE IF v = <<>> THEN [ok |-> FALSE, what |-> "out_of_range"]
     ELSE [ok |-> TRUE, val |-> v[1]]

\* FileManager::is_wav_file
is_wav_file(path) == path \in WavFiles

\* Exit status the parent observes for a value returned from main or given
\* to std::exit: its low 8 bits.
ExitStatus(code) == code % 256

----------------------------------------------------------------------------
VARIABLES
  argv,                    \* the argument vector, argv[1] being the program name
  devices,                 \* ids the device registry knows now
  default_output,          \* get_default_audio_output_device(): optional id
  pc,                      \* position of the main thread
  i,                       \* loop index of parse_command_line_arguments
  input_file_path,         \* std::optional<std::string>
  audio_output_device_id,  \* std::optional<unsigned int>
  running,                 \* the shutdown flag
  sigint_installed,        \* std::signal(SIGINT, ...) has been called
  engine_started,          \* engine.start_thread() has been called
  engine_running,          \* what engine.is_running() answers
  track_created,           \* a track was obtained from the track manager
  track_output,            \* optional id of the output bound to the track
  track_input,             \* optional path of the source bound to the track
  callback_set,            \* the track's event callback is installed
  transport,               \* "stopped" | "playing"
  calls,                   \* collaborator calls made by main, in order
  sig_ops,                 \* operations the last SIGINT handler run performed
  interrupt_fired,         \* the SIGINT handler has run
  finished_fired,          \* the PlaybackFinished callback has run
  first_trigger,           \* which of the two first wrote the flag
  last_cmd,                \* action of the option dispatched last
  last_arg,                \* pointer that action received
  exit_status,             \* status of a process that exited (-1: none)
  exit_reason              \* where the process ended

vars ==
  << argv, devices, default_output, pc, i, input_file_path, audio_output_device_id,
     running, sigint_installed, engine_started, engine_running, track_created,
     track_output, track_input, callback_set, transport, calls, sig_ops,
     interrupt_fired, finished_fired, first_trigger, last_cmd, last_arg,
     exit_status, exit_reason >>

\* Variables of the engine, the track and the flag: untouched by parsing.
session_vars ==
  << running, sigint_installed, engine_started, engine_running, track_created,
     track_output, track_input, callback_set, transport, calls, sig_ops,
     interrupt_fired, finished_fired, first_trigger >>

config_vars == << input_file_path, audio_output_device_id >>

env_vars == << argv, devices, default_output >>

\* DeviceManager::get_audio_device as the option action uses it: the record
\* of the device with that id, or a record with another id.
get_audio_device(id) ==
  IF id \in devices THEN [id |-> id] ELSE [id |-> NoDeviceId]

Terminal == { "exited", "crashed", "killed" }

Alive == pc \notin Terminal

RECURSIVE SeqsUpTo(_, _)
SeqsUpTo(S, n) ==
  IF n = 0 THEN { <<>> }
  ELSE LET shorter == SeqsUpTo(S, n - 1)
       IN shorter \cup { Append(s, t) : s \in { x \in shorter : Len(x) = n - 1 }, t \in S }

Init ==
  /\ argv \in { <<S_prog>> \o a : a \in SeqsUpTo(Tokens, MaxArgs) }
  /\ devices = AudioDevices
  /\ default_output \in { nullopt } \cup { << d >> : d \in AudioDevices }
  /\ pc = "parse_entry"
  /\ i = 1
  /\ input_file_path = nullopt
  /\ audio_output_device_id = nullopt
  /\ running = TRUE
  /\ sigint_installed = FALSE
  /\ engine_started = FALSE
  /\ engine_running = FALSE
  /\ track_created = FALSE
  /\ track_output = nullopt
  /\ track_input = nullopt
  /\ callback_set = FALSE
  /\ transport = "stopped"
  /\ calls = <<>>
  /\ sig_ops = <<>>
  /\ interrupt_fired = FALSE
  /\ finished_fired = FALSE
  /\ first_trigger = "none"
  /\ last_cmd = "none"
  /\ last_arg = nullptr
  /\ exit_status = -1
  /\ exit_reason = "none"

----------------------------------------------------------------------------
\* Ways the process ends.

\* std::exit(code), or return code from main.
Exit(code, reason) ==
  /\ pc' = "exited"
  /\ exit_status' = ExitStatus(code)
  /\ exit_reason' = reason

\* Abnormal termination by SIGABRT or SIGSEGV: no exit status.
Crash(reason) ==
  /\ pc' = "crashed"
  /\ exit_status' = -1
  /\ exit_reason' = reason

----------------------------------------------------------------------------
\* The option actions.  Each receives the pointer ActionArg computed and
\* either ends the process or returns to the dispatch loop.

\* What constructing a std::string from a null pointer does: undefined
\* behaviour.  libstdc++ throws std::logic_error, which nothing catches
\* (std::terminate, SIGABRT); an implementation that calls strlen first
\* faults (SIGSEGV).
NullStringOutcomes == { "null_string_abort", "null_string_segv" }

Continue ==
  /\ pc' = "parse_loop"
  /\ i' = i + 1
  /\ UNCHANGED << exit_status, exit_reason >>

help(arg) ==
  /\ Exit(0, "help")
  /\ UNCHANGED << i, config_vars >>

version(arg) ==
  /\ Exit(0, "version")
  /\ UNCHANGED << i, config_vars >>

\* Variant of input_file: the loop index is moved past the token the
\* action consumed.
input_file_SkipArg(arg) ==
  IF arg = nullptr
  THEN /\ \E o \in NullStringOutcomes : Crash(o)
       /\ UNCHANGED << i, config_vars >>
  ELSE /\ input_file_path' = << arg[1] >>
       /\ pc' = "parse_loop"
       /\ i' = i + 2
       /\ UNCHANGED << exit_status, exit_reason, audio_output_device_id >>

input_file(arg) ==
  IF arg = nullptr
  THEN /\ \E o \in NullStringOutcomes : Crash(o)
       /\ UNCHANGED << i, config_vars >>
  ELSE /\ input_file_path' = << arg[1] >>
       /\ Continue
       /\ UNCHANGED audio_output_device_id

list_audio_devices(arg) ==
  /\ Exit(0, "list_audio_devices")
  /\ UNCHANGED << i, config_vars >>

\* Variant of set_audio_output: an id the registry does not know is reported
\* but not given up on.
set_audio_output_NoExit(arg) ==
  IF arg = nullptr
  THEN /\ \E o \in NullStringOutcomes : Crash(o)
       /\ UNCHANGED << i, config_vars >>
  ELSE LET r == stoi(arg[1]) IN
       IF ~r.ok
       THEN /\ Crash(r.what)
            /\ UNCHANGED << i, config_vars >>
       ELSE /\ audio_output_device_id' = << ToUnsigned(r.val) >>
            /\ Continue
            /\ UNCHANGED input_file_path

set_audio_output(arg) ==
  IF arg = nullptr
  THEN /\ \E o \in NullStringOutcomes : Crash(o)
       /\ UNCHANGED << i, config_vars >>
  ELSE LET r == stoi(arg[1]) IN
       IF ~r.ok
       THEN /\ Crash(r.what)
            /\ UNCHANGED << i, config_vars >>
       ELSE LET device_id == ToUnsigned(r.val)
                audio_device == get_audio_device(device_id)
            IN IF audio_device.id # device_id
               THEN /\ Exit(1, "no_audio_device")
                    /\ UNCHANGED << i, config_vars >>
               ELSE /\ audio_output_device_id' = << device_id >>
                    /\ Continue
                    /\ UNCHANGED input_file_path

RunAction(name, arg) ==
  CASE name = "help" -> help(arg)
    [] name = "version" -> version(arg)
    [] name = "input_file" -> input_file(arg)
    [] name = "list_audio_devices" -> list_audio_devices(arg)
    [] name = "set_audio_output" -> set_audio_output(arg)

----------------------------------------------------------------------------
\* parse_command_line_arguments

\* Variant of ParseEntry: the engine thread is started before the options
\* are looked at.
ParseEntry_EngineFirst ==
  /\ pc = "parse_entry"
  /\ engine_started' = TRUE
  /\ engine_running' = TRUE
  /\ calls' = Append(calls, "start_thread")
  /\ IF Len(argv) < 2
     THEN /\ help(<< argv[1] >>)
          /\ last_cmd' = "help"
          /\ last_arg' = << argv[1] >>
     ELSE /\ pc' = "parse_loop"
          /\ i' = 1
          /\ UNCHANGED << config_vars, last_cmd, last_arg, exit_status, exit_reason >>
  /\ UNCHANGED << env_vars, running, sigint_installed, track_created,
                  track_output, track_input, callback_set, transport, sig_ops,
                  interrupt_fired, finished_fired, first_trigger >>

\* Variant of ParseEntry: the test is argc < 1.
ParseEntry_OffByOne ==
  /\ pc = "parse_entry"
  /\ IF Len(argv) < 1
     THEN /\ help(<< argv[1] >>)
          /\ last_cmd' = "help"
          /\ last_arg' = << argv[1] >>
     ELSE /\ pc' = "parse_loop"
          /\ i' = 1
          /\ UNCHANGED << config_vars, last_cmd, last_arg, exit_status, exit_reason >>
  /\ UNCHANGED << env_vars, session_vars >>

\* Entry: with no argument, help(argv[0]); else on to the loop with i = 1.
ParseEntry ==
  /\ pc = "parse_entry"
  /\ IF Len(argv) < 2
     THEN /\ help(<< argv[1] >>)
          /\ last_cmd' = "help"
          /\ last_arg' = << argv[1] >>
     ELSE /\ pc' = "parse_loop"
          /\ i' = 1
          /\ UNCHANGED << config_vars, last_cmd, last_arg, exit_status, exit_reason >>
  /\ UNCHANGED << env_vars, session_vars >>

\* Variant of ParseToken: a token that matches no entry is answered with the
\* help text.
ParseToken_UnknownHelp ==
  /\ pc = "parse_loop"
  /\ i < Len(argv)
  /\ LET arg == argv[i + 1]
         k == MatchCommand(arg)
     IN IF k = 0
        THEN /\ help(<< arg >>)
             /\ UNCHANGED << last_cmd, last_arg >>
        ELSE /\ RunAction(commands[k].action, ActionArg(argv, i))
             /\ last_cmd' = commands[k].action
             /\ last_arg' = ActionArg(argv, i)
  /\ UNCHANGED << env_vars, session_vars >>

\* One iteration of the outer loop: argv[i] against the table, the action of
\* the first entry that matches, then ++i.
ParseToken ==
  /\ pc = "parse_loop"
  /\ i < Len(argv)
  /\ LET arg == argv[i + 1]
         k == MatchCommand(arg)
     IN IF k = 0
        THEN /\ Continue
             /\ UNCHANGED << config_vars, last_cmd, last_arg >>
        ELSE /\ RunAction(commands[k].action, ActionArg(argv, i))
             /\ last_cmd' = commands[k].action
             /\ last_arg' = ActionArg(argv, i)
  /\ UNCHANGED << env_vars, session_vars >>

\* The loop ends and the function returns to main.
ParseDone ==
  /\ pc = "parse_loop"
  /\ ~(i < Len(argv))
  /\ pc' = "check_input"
  /\ UNCHANGED << env_vars, session_vars, config_vars, i, last_cmd, last_arg,
                  exit_status, exit_reason >>

parse_command_line_arguments == ParseEntry \/ ParseToken \/ ParseDone

----------------------------------------------------------------------------
\* main, after parsing.  Each step is the statement at its pc.

Call(name) == calls' = Append(calls, name)

\* return code; from main
Return(code, reason) == Exit(code, reason)

\* Variant of CheckInput: the path is not checked.
CheckInput_NoWavCheck ==
  /\ pc = "check_input"
  /\ IF input_file_path # nullopt
     THEN /\ pc' = "start_thread"
          /\ UNCHANGED << exit_status, exit_reason >>
     ELSE Return(0, "no_input_file")
  /\ UNCHANGED << env_vars, session_vars, config_vars, i, last_cmd, last_arg >>

\* Variant of CheckInput: a missing path is reported as a failure.
CheckInput_NoInputFails ==
  /\ pc = "check_input"
  /\ IF input_file_path # nullopt
     THEN IF ~is_wav_file(input_file_path[1])
          THEN Return(-1, "not_wav_file")
          ELSE /\ pc' = "start_thread"
               /\ UNCHANGED << exit_status, exit_reason >>
     ELSE Return(-1, "no_input_file")
  /\ UNCHANGED << env_vars, session_vars, config_vars, i, last_cmd, last_arg >>

\* Lines 122-131: the input path must be set and name a WAV file.
CheckInput ==
  /\ pc = "check_input"
  /\ IF input_file_path # nullopt
     THEN IF ~is_wav_file(input_file_path[1])
          THEN Return(-1, "not_wav_file")
          ELSE /\ pc' = "start_thread"
               /\ UNCHANGED << exit_status, exit_reason >>
     ELSE Return(0, "no_input_file")
  /\ UNCHANGED << env_vars, session_vars, config_vars, i, last_cmd, last_arg >>

\* Line 133: engine.start_thread()
StartThread ==
  /\ pc = "start_thread"
  /\ engine_started' = TRUE
  /\ engine_running' = TRUE
  /\ Call("start_thread")
  /\ pc' = "install_sigint"
  /\ UNCHANGED << env_vars, config_vars, i, last_cmd, last_arg, exit_status,
                  exit_reason, running, sigint_installed, track_created,
                  track_output, track_input, callback_set, transport, sig_ops,
                  interrupt_fired, finished_fired, first_trigger >>

\* Lines 135-138: std::signal(SIGINT, handler)
InstallSigint ==
  /\ pc = "install_sigint"
  /\ sigint_installed' = TRUE
  /\ pc' = "add_track"
  /\ UNCHANGED << env_vars, config_vars, i, last_cmd, last_arg, exit_status,
                  exit_reason, running, engine_started, engine_running,
                  track_created, track_output, track_input, callback_set,
                  transport, calls, sig_ops, interrupt_fired, finished_fired,
                  first_trigger >>

\* Lines 141-146: add_track, get_track; a null track ends main with -1.
AddTrack ==
  /\ pc = "add_track"
  /\ Call("add_track")
  /\ \E track_ok \in BOOLEAN :
       IF ~track_ok
       THEN /\ Return(-1, "no_track")
            /\ UNCHANGED track_created
       ELSE /\ track_created' = TRUE
            /\ pc' = "set_output"
            /\ UNCHANGED << exit_status, exit_reason >>
  /\ UNCHANGED << env_vars, config_vars, i, last_cmd, last_arg, running,
                  sigint_installed, engine_started, engine_running,
                  track_output, track_input, callback_set, transport, sig_ops,
                  interrupt_fired, finished_fired, first_trigger >>

\* Variant of SetOutput: without an output device main returns -1.
SetOutput_Fatal ==
  /\ pc = "set_output"
  /\ LET audio_output ==
           IF audio_output_device_id # nullopt
           THEN << get_audio_device(audio_output_device_id[1]).id >>
           ELSE default_output
     IN IF audio_output # nullopt
        THEN /\ track_output' = audio_output
             /\ Call("add_audio_device_output")
             /\ pc' = "read_wav"
             /\ UNCHANGED << exit_status, exit_reason >>
        ELSE /\ Return(-1, "no_output")
             /\ UNCHANGED << track_output, calls >>
  /\ UNCHANGED << env_vars, config_vars, i, last_cmd, last_arg, running,
                  sigint_installed, engine_started, engine_running,
                  track_created, track_input, callback_set, transport,
                  sig_ops, interrupt_fired, finished_fired, first_trigger >>

\* Lines 149-155: the configured device, else the default one; without
\* either, an error is logged and main goes on.
SetOutput ==
  /\ pc = "set_output"
  /\ LET audio_output ==
           IF audio_output_device_id # nullopt
           THEN << get_audio_device(audio_output_device_id[1]).id >>
           ELSE default_output
     IN IF audio_output # nullopt
        THEN /\ track_output' = audio_output
             /\ Call("add_audio_device_output")
        ELSE UNCHANGED << track_output, calls >>
  /\ pc' = "read_wav"
  /\ UNCHANGED << env_vars, config_vars, i, last_cmd, last_arg, exit_status,
                  exit_reason, running, sigint_installed, engine_started,
                  engine_running, track_created, track_input, callback_set,
                  transport, sig_ops, interrupt_fired, finished_fired,
                  first_trigger >>

\* Variant of ReadWav: the failure returns 1.
ReadWav_Return1 ==
  /\ pc = "read_wav"
  /\ \E wav_ok \in BOOLEAN :
       IF wav_ok
       THEN /\ track_input' = << input_file_path[1] >>
            /\ Call("add_audio_file_input")
            /\ pc' = "set_callback"
            /\ UNCHANGED << exit_status, exit_reason >>
       ELSE /\ Return(1, "read_failed")
            /\ UNCHANGED << track_input, calls >>
  /\ UNCHANGED << env_vars, config_vars, i, last_cmd, last_arg, running,
                  sigint_installed, engine_started, engine_running,
                  track_created, track_output, callback_set, transport,
                  sig_ops, interrupt_fired, finished_fired, first_trigger >>

\* Lines 158-165: read_wav_file; without a file main ends with -1.
ReadWav ==
  /\ pc = "read_wav"
  /\ \E wav_ok \in BOOLEAN :
       IF wav_ok
       THEN /\ track_input' = << input_file_path[1] >>
            /\ Call("add_audio_file_input")
            /\ pc' = "set_callback"
            /\ UNCHANGED << exit_status, exit_reason >>
       ELSE /\ Return(-1, "read_failed")
            /\ UNCHANGED << track_input, calls >>
  /\ UNCHANGED << env_vars, config_vars, i, last_cmd, last_arg, running,
                  sigint_installed, engine_started, engine_running,
                  track_created, track_output, callback_set, transport,
                  sig_ops, interrupt_fired, finished_fired, first_trigger >>

\* Variant of SetCallback: the callback is not installed.
SetCallback_Missing ==
  /\ pc = "set_callback"
  /\ pc' = "play"
  /\ UNCHANGED << env_vars, config_vars, i, last_cmd, last_arg, exit_status,
                  exit_reason, session_vars >>

\* Lines 170-175: track->set_event_callback(...)
SetCallback ==
  /\ pc = "set_callback"
  /\ callback_set' = TRUE
  /\ Call("set_event_callback")
  /\ pc' = "play"
  /\ UNCHANGED << env_vars, config_vars, i, last_cmd, last_arg, exit_status,
                  exit_reason, running, sigint_installed, engine_started,
                  engine_running, track_created, track_output, track_input,
                  transport, sig_ops, interrupt_fired, finished_fired,
                  first_trigger >>

\* Line 178: track->play()
Play ==
  /\ pc = "play"
  /\ transport' = "playing"
  /\ Call("play")
  /\ pc' = "loop_cond"
  /\ UNCHANGED << env_vars, config_vars, i, last_cmd, last_arg, exit_status,
                  exit_reason, running, sigint_installed, engine_started,
                  engine_running, track_created, track_output, track_input,
                  callback_set, sig_ops, interrupt_fired, finished_fired,
                  first_trigger >>

\* Variant of LoopCond: a stopped engine leads into the teardown branch.
LoopCond_StopOnExit ==
  /\ pc = "loop_cond"
  /\ pc' = IF engine_running THEN "loop_check" ELSE "track_stop"
  /\ UNCHANGED << env_vars, config_vars, i, last_cmd, last_arg, exit_status,
                  exit_reason, session_vars >>

\* Line 181: while (engine.is_running())
LoopCond ==
  /\ pc = "loop_cond"
  /\ pc' = IF engine_running THEN "loop_check" ELSE "main_return"
  /\ UNCHANGED << env_vars, config_vars, i, last_cmd, last_arg, exit_status,
                  exit_reason, session_vars >>

\* Variant of LoopCheck: track->stop() is left out.
LoopCheck_NoTrackStop ==
  /\ pc = "loop_check"
  /\ pc' = IF ~running THEN "stop_thread" ELSE "sleep"
  /\ UNCHANGED << env_vars, config_vars, i, last_cmd, last_arg, exit_status,
                  exit_reason, session_vars >>

\* Variant of LoopCheck: the test is if (running).
LoopCheck_Inverted ==
  /\ pc = "loop_check"
  /\ pc' = IF running THEN "track_stop" ELSE "sleep"
  /\ UNCHANGED << env_vars, config_vars, i, last_cmd, last_arg, exit_status,
                  exit_reason, session_vars >>

\* Line 182: if (!running)
LoopCheck ==
  /\ pc = "loop_check"
  /\ pc' = IF ~running THEN "track_stop" ELSE "sleep"
  /\ UNCHANGED << env_vars, config_vars, i, last_cmd, last_arg, exit_status,
                  exit_reason, session_vars >>

\* Line 184: track->stop()
TrackStop ==
  /\ pc = "track_stop"
  /\ transport' = "stopped"
  /\ Call("track_stop")
  /\ pc' = "stop_thread"
  /\ UNCHANGED << env_vars, config_vars, i, last_cmd, last_arg, exit_status,
                  exit_reason, running, sigint_installed, engine_started,
                  engine_running, track_created, track_output, track_input,
                  callback_set, sig_ops, interrupt_fired, finished_fired,
                  first_trigger >>

\* Lines 185-186: engine.stop_thread(); break
StopThread ==
  /\ pc = "stop_thread"
  /\ engine_running' = FALSE
  /\ Call("stop_thread")
  /\ pc' = "main_return"
  /\ UNCHANGED << env_vars, config_vars, i, last_cmd, last_arg, exit_status,
                  exit_reason, running, sigint_installed, engine_started,
                  track_created, track_output, track_input, callback_set,
                  transport, sig_ops, interrupt_fired, finished_fired,
                  first_trigger >>

\* Line 189: sleep_for(100 ms), then back to the loop condition.
Sleep ==
  /\ pc = "sleep"
  /\ pc' = "loop_cond"
  /\ UNCHANGED << env_vars, config_vars, i, last_cmd, last_arg, exit_status,
                  exit_reason, session_vars >>

\* Variant of MainReturn: main returns -1 after the loop.
MainReturn_Minus1 ==
  /\ pc = "main_return"
  /\ Return(-1, "loop_left")
  /\ UNCHANGED << env_vars, config_vars, i, last_cmd, last_arg, session_vars >>

\* Line 192: return 0
MainReturn ==
  /\ pc = "main_return"
  /\ Return(0, "loop_left")
  /\ UNCHANGED << env_vars, config_vars, i, last_cmd, last_arg, session_vars >>

----------------------------------------------------------------------------
\* The other execution contexts.

\* SIGINT while the process lives.  Before std::signal has run the default
\* disposition ends the process; afterwards the handler logs and clears the
\* flag.
Sigint ==
  /\ Alive
  /\ IF sigint_installed
     THEN /\ sig_ops' = << "LOG_INFO", "running = false" >>
          /\ running' = FALSE
          /\ interrupt_fired' = TRUE
          /\ first_trigger' = IF running THEN "interrupt" ELSE first_trigger
          /\ UNCHANGED << pc, exit_status, exit_reason >>
     ELSE /\ pc' = "killed"
          /\ exit_reason' = "sigint_default"
          /\ UNCHANGED << exit_status, sig_ops, running, interrupt_fired,
                          first_trigger >>
  /\ UNCHANGED << env_vars, config_vars, i, last_cmd, last_arg,
                  sigint_installed, engine_started, engine_running,
                  track_created, track_output, track_input, callback_set,
                  transport, calls, finished_fired >>

TrackEvents == { "PlaybackFinished", "PlaybackStarted" }

\* Variant of TrackEvent: the callback assigns the flag on every event,
\* running = (event != PlaybackFinished).
TrackEvent_Assign ==
  /\ Alive
  /\ engine_running
  /\ transport = "playing"
  /\ callback_set
  /\ \E event \in TrackEvents :
       /\ running' = (event # "PlaybackFinished")
       /\ IF event = "PlaybackFinished"
          THEN /\ finished_fired' = TRUE
               /\ first_trigger' = IF running THEN "finished" ELSE first_trigger
          ELSE UNCHANGED << finished_fired, first_trigger >>
  /\ UNCHANGED << env_vars, config_vars, i, last_cmd, last_arg, pc,
                  exit_status, exit_reason, sigint_installed, engine_started,
                  engine_running, track_created, track_output, track_input,
                  callback_set, transport, calls, sig_ops, interrupt_fired >>

\* The engine, playing the track, delivers an event to the track's callback,
\* which clears the flag on PlaybackFinished.
TrackEvent ==
  /\ Alive
  /\ engine_running
  /\ transport = "playing"
  /\ callback_set
  /\ \E event \in TrackEvents :
       IF event = "PlaybackFinished"
       THEN /\ running' = FALSE
            /\ finished_fired' = TRUE
            /\ first_trigger' = IF running THEN "finished" ELSE first_trigger
       ELSE UNCHANGED << running, finished_fired, first_trigger >>
  /\ UNCHANGED << env_vars, config_vars, i, last_cmd, last_arg, pc,
                  exit_status, exit_reason, sigint_installed, engine_started,
                  engine_running, track_created, track_output, track_input,
                  callback_set, transport, calls, sig_ops, interrupt_fired >>

\* A device leaves the system while the process runs: the registry no longer
\* knows its id, and it is no longer the default output.
DeviceRemoved ==
  /\ Alive
  /\ \E d \in devices :
       /\ devices' = devices \ { d }
       /\ default_output' = IF default_output = << d >> THEN nullopt ELSE default_output
  /\ UNCHANGED << argv, config_vars, i, last_cmd, last_arg, pc, exit_status,
                  exit_reason, session_vars >>

\* The engine thread ends by itself: is_running() answers false from now on.
EngineStops ==
  /\ Alive
  /\ engine_running
  /\ engine_running' = FALSE
  /\ UNCHANGED << env_vars, config_vars, i, last_cmd, last_arg, pc,
                  exit_status, exit_reason, running, sigint_installed,
                  engine_started, track_created, track_output, track_input,
                  callback_set, transport, calls, sig_ops, interrupt_fired,
                  finished_fired, first_trigger >>

----------------------------------------------------------------------------
main ==
  \/ parse_command_line_arguments
  \/ CheckInput \/ StartThread \/ InstallSigint \/ AddTrack \/ SetOutput
  \/ ReadWav \/ SetCallback \/ Play
  \/ LoopCond \/ LoopCheck \/ TrackStop \/ StopThread \/ Sleep \/ MainReturn

Next == main \/ Sigint \/ TrackEvent \/ EngineStops \/ DeviceRemoved

\* Longest argument list explored where the main thread is scheduled fairly.
MaxFairArgs == 2

InitFair == Init /\ Len(argv) <= MaxFairArgs + 1

\* The main thread keeps being scheduled: each of its statements, once
\* reached, is executed (sleep_for returns).  Nothing is assumed of signals,
\* track events or the engine ending.
FairSpec == InitFair /\ [][Next]_vars /\ WF_vars(main)

Spec == Init /\ [][Next]_vars

----------------------------------------------------------------------------
\* Vocabulary of the properties.

Has(name) == \E k \in DOMAIN calls : calls[k] = name

\* Call a is in the log and every call b comes after an a.
Precedes(a, b) ==
  \A k \in DOMAIN calls : calls[k] = b => \E j \in 1..(k - 1) : calls[j] = a

\* The last two calls main made.
LastTwo(a, b) ==
  Len(calls) >= 2 /\ calls[Len(calls) - 1] = a /\ calls[Len(calls)] = b

LastCall(a) == Len(calls) >= 1 /\ calls[Len(calls)] = a

\* Reasons with which an option action ends the process.
ActionEndReasons ==
  { "help", "version", "list_audio_devices", "no_audio_device",
    "invalid_argument", "out_of_range" } \cup NullStringOutcomes

\* Reasons with which main ends the process after parsing.
FatalReasons == { "no_audio_device", "not_wav_file", "read_failed", "no_track" }
SuccessReasons ==
  { "help", "version", "list_audio_devices", "no_input_file", "loop_left" }

\* s is a number naming no device the registry ever knows.
UnknownId(s) == stoi(s).ok /\ ToUnsigned(stoi(s).val) \notin AudioDevices

\* s is a number naming a device the registry knows now.
KnownId(s) == stoi(s).ok /\ ToUnsigned(stoi(s).val) \in devices

IsOutputOption(t) == t \in { S_o, S_set_audio_output }

\* The argument list holds a set-audio-output option followed by an id the
\* registry does not know.
HasUnknownOutputRequest ==
  \E k \in 2..(Len(argv) - 1) : IsOutputOption(argv[k]) /\ UnknownId(argv[k + 1])

----------------------------------------------------------------------------
\* C1: the call that stops the transport comes before the call that stops
\* the engine thread, on every shutdown: stop_thread is never in the call
\* order without an earlier track stop, and the transport is stopped by then.
C1_StopTransportBeforeEngine ==
  /\ Precedes("track_stop", "stop_thread")
  /\ Has("stop_thread") => transport = "stopped"
  /\ pc = "stop_thread" => LastCall("track_stop") /\ transport = "stopped"

\* C1 witness: a shutdown with both triggers fired has stopped the engine.
C1_Witness ==
  /\ LastTwo("track_stop", "stop_thread")
  /\ interrupt_fired /\ finished_fired

\* C2 as stated: whenever main leaves the loop, it has stopped transport and
\* then asked the engine thread to stop.
C2_BothTriggersDrain ==
  (pc \in { "main_return", "exited" } /\ Has("play"))
    => LastTwo("track_stop", "stop_thread")

\* C2 amended: main leaves the loop either on the flag, read false with the
\* engine running, having stopped transport and then the engine thread, or
\* because the engine reports itself not running, having made no stop call.
C2_DrainOnFlagOnly ==
  /\ pc \in { "track_stop", "stop_thread" } => ~running
  /\ (pc \in { "main_return", "exited" } /\ Has("play")) =>
       \/ /\ ~running
          /\ LastTwo("track_stop", "stop_thread")
          /\ transport = "stopped"
       \/ /\ ~engine_running
          /\ LastCall("play")
          /\ transport = "playing"
  /\ (pc = "exited" /\ Has("play")) => exit_status = 0

\* C2 witness: the process ended after the engine stopped by itself, with
\* the flag still true and no stop call made.
C2_Witness ==
  pc = "exited" /\ LastCall("play") /\ running /\ ~engine_running

\* C3: the flag starts true, only ever goes from true to false, does so
\* when the interrupt handler or the playback-finished callback runs, and
\* stays false on a later trigger.
C3_FlagFallsOnce ==
  /\ running = TRUE
  /\ [][ /\ (~running => ~running')
         /\ ((running /\ ~running') =>
               \/ (interrupt_fired' /\ ~interrupt_fired)
               \/ (finished_fired' /\ ~finished_fired))
         /\ ((interrupt_fired' \/ finished_fired') => ~running') ]_vars

\* C3 witness: both triggers have fired, the callback first, the flag false.
C3_Witness ==
  ~running /\ interrupt_fired /\ finished_fired /\ first_trigger = "finished"

\* C4 as stated: an argument list holding a set-audio-output option followed
\* by an unknown id exits with status 1 (and starts nothing).
C4_UnknownDeviceAlwaysExits1 ==
  HasUnknownOutputRequest =>
    /\ pc = "exited" => exit_status = 1
    /\ ~track_created /\ transport = "stopped"

\* C4 amended: when the dispatcher comes to a set-audio-output option
\* followed by an unknown id, the process exits there with status 1; and an
\* argument list holding such a pair never gets past parsing, however the
\* process ends: no engine thread, no track, no transport start.
C4_UnknownDeviceStopsBeforePlayback ==
  /\ (last_cmd = "set_audio_output" /\ last_arg # nullptr /\ UnknownId(last_arg[1]))
       => (pc = "exited" /\ exit_status = 1 /\ exit_reason = "no_audio_device")
  /\ HasUnknownOutputRequest =>
       /\ pc \in { "parse_entry", "parse_loop" } \cup Terminal
       /\ exit_reason \in ActionEndReasons \cup { "none", "sigint_default" }
       /\ ~engine_started /\ ~track_created /\ transport = "stopped"
       /\ calls = <<>>

\* C4 witness: the unknown id came after a valid input file and ended the
\* process with status 1.
C4_Witness ==
  /\ exit_reason = "no_audio_device" /\ exit_status = 1
  /\ input_file_path = << S_a_wav >>
  /\ UnknownId(last_arg[1])

\* C5: a fatal failure after the engine thread was started (no track, file
\* not read) ends the process with a failure status, transport never
\* started and the engine thread no longer running.
C5_NoPartialSession ==
  (pc = "exited" /\ exit_reason \in { "no_track", "read_failed" }) =>
    /\ exit_status # 0
    /\ ~Has("play") /\ transport = "stopped"
    /\ ~engine_running

\* C6: an input path that fails the validity check ends the process with a
\* failure status, and with such a path the engine thread is never started,
\* no track created and no source bound.
C6_InvalidFileStartsNothing ==
  /\ exit_reason = "not_wav_file" => (pc = "exited" /\ exit_status # 0)
  /\ (input_file_path # nullopt /\ ~is_wav_file(input_file_path[1])) =>
       /\ ~engine_started /\ ~engine_running
       /\ ~track_created /\ track_input = nullopt
       /\ calls = <<>>
       /\ (pc = "exited" /\ exit_reason \notin ActionEndReasons)
            => exit_reason = "not_wav_file"

\* C6 witness: main returned on the validity check.
C6_Witness ==
  pc = "exited" /\ exit_reason = "not_wav_file" /\ input_file_path = << S_b_txt >>

\* C7: when parsing completes with no input path set, the process exits
\* with status 0, and without an input path nothing is started: no engine
\* thread, no track, no signal handler, no transport.
C7_NoInputExits0 ==
  /\ exit_reason = "no_input_file" => (pc = "exited" /\ exit_status = 0)
  /\ input_file_path = nullopt =>
       /\ ~engine_started /\ ~engine_running
       /\ ~track_created /\ ~sigint_installed /\ transport = "stopped"
       /\ calls = <<>>
       /\ (pc = "exited" /\ exit_reason \notin ActionEndReasons)
            => (exit_reason = "no_input_file" /\ exit_status = 0)

\* C7 witness: options were given, an output device was configured, and
\* main returned for want of an input file.
C7_Witness ==
  /\ pc = "exited" /\ exit_reason = "no_input_file"
  /\ audio_output_device_id # nullopt

\* C8 as stated: every fatal error ends with status exactly 1 and every
\* success or no-op path with status 0.
C8_FatalIsExactly1 ==
  pc = "exited" =>
    /\ exit_reason \in FatalReasons => exit_status = 1
    /\ exit_reason \in SuccessReasons => exit_status = 0

\* C8 amended: every fatal error ends with a non-zero status, 1 for an
\* unknown output device id and 255 (main returning -1) for a file that is
\* no WAV file, a file that cannot be read and a track that cannot be
\* created; every success or no-op path ends with status 0.
C8_FatalIsNonZero ==
  pc = "exited" =>
    /\ exit_reason \in FatalReasons \cup SuccessReasons
    /\ exit_reason = "no_audio_device" => exit_status = 1
    /\ exit_reason \in FatalReasons \ { "no_audio_device" } => exit_status = 255
    /\ exit_reason \in SuccessReasons => exit_status = 0

\* C8 witness: the file could not be read and main returned -1.
C8_Witness ==
  pc = "exited" /\ exit_reason = "read_failed" /\ exit_status = 255

\* C9: the interrupt handler does one thing, the write of false to the
\* flag, and nothing else.
C9_HandlerOnlyWritesFlag ==
  interrupt_fired => sig_ops = << "running = false" >>

\* C10: a configuring option never ends the process, wherever it stands:
\* followed by a token its action receives that token, and as the last token
\* its action runs with no argument and parsing goes on.
C10_ConfiguringNeverTerminates ==
  /\ (last_cmd = "input_file" /\ last_arg # nullptr) => input_file_path = last_arg
  /\ (pc \in { "exited", "crashed" } /\ exit_reason \in ActionEndReasons) =>
       ~ \/ last_cmd = "input_file"
         \/ /\ last_cmd = "set_audio_output"
            /\ (last_arg = nullptr \/ KnownId(last_arg[1]))

\* C11 as stated: once transport has been started, a playback-finished event
\* or an interrupt leads to flag false, transport stopped, engine thread
\* stop requested and exit status 0.
C11_TriggerAlwaysDrains ==
  (pc = "exited" /\ Has("play") /\ (interrupt_fired \/ finished_fired)) =>
    /\ exit_status = 0 /\ ~running
    /\ transport = "stopped" /\ Has("stop_thread")

\* C11 amended: with the main thread scheduled fairly, once transport has
\* been started a playback-finished event or an interrupt leads to the flag
\* false, the loop left and exit status 0, with transport stopped and then
\* the engine thread stopped when main found the engine running at its loop
\* test, and with no stop call when the engine had ended by itself.
C11_TriggerLeadsToExit0 ==
  (Has("play") /\ (interrupt_fired \/ finished_fired)) ~>
    /\ pc = "exited" /\ exit_status = 0 /\ exit_reason = "loop_left"
    /\ ~running /\ ~engine_running
    /\ \/ LastTwo("track_stop", "stop_thread") /\ transport = "stopped"
       \/ LastCall("play") /\ transport = "playing"

\* C11 witness: playback finished, main tore the session down in order and
\* the process exited with status 0.
C11_Witness ==
  /\ pc = "exited" /\ exit_status = 0
  /\ finished_fired /\ ~interrupt_fired
  /\ LastTwo("track_stop", "stop_thread") /\ transport = "stopped"

\* The long and short forms of the option table.
OptionForms ==
  { S_help, S_h, S_version, S_v, S_input_file, S_i, S_list_audio_devices,
    S_ld, S_set_audio_output, S_o }

\* Forms of the options whose action always ends the process.
TerminalForms == { S_help, S_h, S_version, S_v, S_list_audio_devices, S_ld }

NothingStarted ==
  /\ ~engine_started /\ ~engine_running
  /\ ~track_created /\ track_input = nullopt /\ track_output = nullopt
  /\ ~sigint_installed /\ ~callback_set /\ transport = "stopped"
  /\ calls = <<>>

\* C12: when option parsing ends the process (help, version, device list,
\* unknown device id, id that is no number), no engine resource has been
\* acquired: no engine thread, no track, whatever other options were given.
C12_ParseExitBeforeEngine ==
  /\ pc \in { "parse_entry", "parse_loop" } => NothingStarted
  /\ exit_reason \in ActionEndReasons =>
       /\ pc \in { "exited", "crashed" }
       /\ NothingStarted

\* C12 witness: a valid input file was configured, then a device id that is
\* no number ended the process.
C12_Witness ==
  /\ pc = "crashed" /\ exit_reason = "invalid_argument"
  /\ last_cmd = "set_audio_output"
  /\ input_file_path = << S_a_wav >>

\* C13: a token that matches no option entry is a no-op: the step that
\* handles it changes neither the input path nor the output device id, does
\* not end the process and moves on to the next token.
C13_UnmatchedTokenIsNoOp ==
  [][ ( /\ pc = "parse_loop" /\ i < Len(argv)
        /\ argv[i + 1] \notin OptionForms
        /\ pc' # "killed"
        /\ << pc, i, config_vars, last_cmd, last_arg, exit_status, exit_reason >>
             # << pc, i, config_vars, last_cmd, last_arg, exit_status, exit_reason >>' )
      => ( /\ pc' = "parse_loop" /\ i' = i + 1
           /\ UNCHANGED << config_vars, exit_status, exit_reason >> ) ]_vars

\* C13 witness: an unmatched token has just been passed over, with the input
\* path configured before it untouched and a token left after it.
C13_Witness ==
  /\ pc = "parse_loop" /\ i = 4 /\ i < Len(argv)
  /\ argv[i] \notin OptionForms
  /\ last_cmd = "input_file" /\ input_file_path = << argv[3] >>

\* C14: an argument list of fewer than 2 tokens gets the help action and
\* exit status 0, with nothing configured and nothing started.
C14_NoArgsHelpExit0 ==
  Len(argv) < 2 =>
    /\ pc \in { "parse_entry", "exited", "killed" }
    /\ pc = "exited" =>
         (exit_reason = "help" /\ exit_status = 0 /\ last_cmd = "help")
    /\ input_file_path = nullopt /\ audio_output_device_id = nullopt
    /\ NothingStarted

\* C14 witness: the program name alone, help performed, exit status 0.
C14_Witness ==
  Len(argv) = 1 /\ pc = "exited" /\ exit_reason = "help" /\ exit_status = 0

\* C15: once the flag is false with the engine running, main begins the
\* teardown after at most one sleep: a sleep is only entered from a check
\* that read the flag true, so only the sleep under way when the flag falls
\* is completed; after it main tests the loop condition and the flag, and a
\* check that reads the flag false goes to the transport stop.
C15_NoSleepAfterFlagFalse ==
  [][ /\ (pc' = "sleep" /\ pc # "sleep") => (pc = "loop_check" /\ running)
      /\ (pc = "sleep" /\ pc' # pc) => pc' = "loop_cond"
      /\ (pc = "loop_cond" /\ engine_running /\ pc' # pc) => pc' = "loop_check"
      /\ (pc = "loop_check" /\ ~running /\ pc' # pc) => pc' = "track_stop"
      /\ (~running => ~running') ]_vars

\* C15 witness: the flag fell during a sleep, with the engine running.
C15_Witness ==
  pc = "sleep" /\ ~running /\ engine_running /\ finished_fired

\* C16: transport is started only after the engine thread was started, a
\* source bound to the track and the callback installed, and no
\* playback-finished event reaches the session before the callback is set.
C16_PlayAfterSetup ==
  /\ Precedes("start_thread", "add_track")
  /\ Precedes("add_track", "add_audio_file_input")
  /\ Precedes("add_audio_file_input", "set_event_callback")
  /\ Precedes("set_event_callback", "play")
  /\ (Has("play") \/ transport = "playing") =>
       /\ engine_started /\ track_created
       /\ track_input = input_file_path /\ track_input # nullopt
       /\ callback_set
  /\ finished_fired => (callback_set /\ Has("play"))
  /\ callback_set <=> Has("set_event_callback")

\* C16 witness: playback finished after an ordered start.
C16_Witness ==
  finished_fired /\ LastCall("play") /\ transport = "playing"

\* No output device is resolved at session start: the configured id is not
\* in the registry, or none is configured and there is no default.
NoOutputResolved ==
  IF audio_output_device_id # nullopt
  THEN audio_output_device_id[1] \notin devices
  ELSE default_output = nullopt

\* C17 as stated: when no output device is resolved at session start, no
\* output is bound to the track and the session goes on.
C17_NoDeviceBindsNothing ==
  [][ (pc = "set_output" /\ pc' # pc /\ NoOutputResolved) =>
        /\ pc' = "read_wav"
        /\ track_output' = nullopt
        /\ calls' = calls ]_vars

\* C17 amended: with no id configured and no default device, no output is
\* bound; with an id configured, the record the lookup returns is bound
\* whether or not the registry still knows the id.  In every case the
\* session goes on to bind the source, and a run that played exits with
\* status 0.
C17_DegradedContinue ==
  /\ [][ (pc = "set_output" /\ pc' # pc) =>
           /\ pc' = "read_wav"
           /\ UNCHANGED << exit_status, exit_reason >>
           /\ (audio_output_device_id = nullopt /\ default_output = nullopt)
                => (track_output' = nullopt /\ calls' = calls)
           /\ (audio_output_device_id = nullopt /\ default_output # nullopt)
                => track_output' = default_output
           /\ audio_output_device_id # nullopt
                => /\ track_output' # nullopt
                   /\ calls' = Append(calls, "add_audio_device_output")
                   /\ audio_output_device_id[1] \in devices
                        => track_output' = audio_output_device_id
                   /\ audio_output_device_id[1] \notin devices
                        => track_output' = << NoDeviceId >> ]_vars
  /\ [](track_output = nullopt => ~Has("add_audio_device_output"))
  /\ []((pc = "exited" /\ Has("play")) => exit_status = 0)

\* C17 witness: no output was bound, the session played and the process
\* ended with status 0.
C17_Witness ==
  /\ track_output = nullopt /\ audio_output_device_id = nullopt
  /\ track_input # nullopt /\ Has("play")
  /\ pc = "exited" /\ exit_status = 0

\* C18: from the start of the engine thread to the exit of the process the
\* interrupt handler is in place, so that no interrupt meets the default
\* disposition.
C18_HandlerWhileEngineRuns ==
  /\ (engine_started /\ Alive) => sigint_installed
  /\ pc = "killed" => ~engine_started

\* C19: every token from index 1 on is dispatched, also the one handed to
\* the option before it as its argument: the token the loop has just passed
\* was dispatched if it equals a form of the table, and parsing completes
\* only when no token equals a form of a terminal option.
C19_ArgumentTokenIsDispatched ==
  /\ (pc = "parse_loop" /\ i > 1 /\ argv[i] \in OptionForms) =>
       /\ \E k \in DOMAIN commands :
            /\ argv[i] \in { commands[k].argument, commands[k].argument_short }
            /\ last_cmd = commands[k].action
       /\ last_arg = IF i < Len(argv) THEN << argv[i + 1] >> ELSE nullptr
  /\ pc \notin ({ "parse_entry", "parse_loop" } \cup Terminal) =>
       \A k \in 2..Len(argv) : argv[k] \notin TerminalForms
  /\ (pc = "exited" /\ exit_reason \notin ActionEndReasons) =>
       \A k \in 2..Len(argv) : argv[k] \notin TerminalForms

\* C19 witness: the input path is the short form of the help option, and
\* the process then exited through help.
C19_Witness ==
  /\ input_file_path = << S_h >>
  /\ pc = "exited" /\ exit_reason = "help" /\ last_cmd = "help"

====
